---- MODULE Spec2Model ----
(***************************************************************************)
(* Model of the photo-analysis pipeline of photography-assistant:          *)
(*   - the Go backend's POST /analyze handler (backend/main.go):           *)
(*     request binding, prefix stripping, base64 validation, the single    *)
(*     Bedrock Converse call, extraction of the JSON payload from the      *)
(*     reply, json.Unmarshal into AnalysisResponse and the score clamp;    *)
(*   - the client's calculateTargetSize (image resizing presets).          *)
(*                                                                         *)
(*   - the client's analysis flow (CameraApp: analyzeCurrentFrame,         *)
(*     analyzePhoto; opencv-utils: resizeImageForAnalysis,                 *)
(*     resizeWithOpenCV).                                                  *)
(*                                                                         *)
(* Strings are sequences of one-character strings.  Go string indices are  *)
(* 0-based and are kept 0-based in Index / LastIndex / Slice.              *)
(***************************************************************************)
EXTENDS Integers, Sequences, FiniteSets, TLC

VARIABLES
  pc,            \* per request: where its handler goroutine stands
  analysisReq,   \* per request: the bound request body (AnalysisRequest)
  imageData,     \* per request: the handler's local imageData (main.go:63-69)
  converseCalls, \* per request: number of bedrockClient.Converse calls made
  converseInput, \* per request: the image bytes given to Converse (main.go:145)
  result,        \* per request: what Converse returned (result, err)
  jsonText,      \* per request: the text handed to json.Unmarshal (main.go:197)
  analyzeErr,    \* per request: the err the handler logs (main.go:80-81)
  bedrockClient, \* the package-level client (main.go:36), shared by all requests
  responses,     \* per request: the c.JSON responses written, in order
  originalWidth, \* calculateTargetSize: source width  (src.cols)
  originalHeight,\* calculateTargetSize: source height (src.rows)
  mode,          \* the ProcessingMode in use
  target,        \* the size calculateTargetSize returned
  sizePc,        \* "idle" | "loaded" | "sized"
  showMagic,         \* CameraApp state (part_001:30)
  showAnalysisModal, \* CameraApp state (part_001:31)
  isAnalyzing,       \* CameraApp state (part_001:32)
  analysisResult,    \* CameraApp state (part_001:33): NoResult or a result
  showImageViewer,   \* CameraApp state (part_001:26)
  capturedPhoto,     \* CameraApp state (part_001:27): TRUE when not null
  aPc,               \* per analysis: where analyzeCurrentFrame/analyzePhoto waits
  resizedImageData,  \* per analysis: analyzePhoto's resizedImageData (part_001:194)
  fetchCalls,        \* per analysis: number of POST /analyze fetches issued
  settled,           \* per analysis: "none" | "skipped" | "resolved" | "rejected"
  failure,           \* per analysis: the message of the error it rejected with
  src,               \* resizeWithOpenCV: the Mat src (part_002:81)
  dst,               \* resizeWithOpenCV: the Mat dst (part_002:81)
  deleteCalls,       \* resizeWithOpenCV: number of delete() calls on src and on dst
  resizePc,          \* resizeWithOpenCV: the statement it stands before
  resizeExit         \* resizeWithOpenCV: "none" | "returned" | "thrown"

serverVars == <<pc, analysisReq, imageData, converseCalls, converseInput,
                result, jsonText, analyzeErr, bedrockClient, responses>>
sizeVars == <<originalWidth, originalHeight, mode, target, sizePc>>
uiVars == <<showMagic, showAnalysisModal, isAnalyzing, analysisResult,
            showImageViewer, capturedPhoto>>
analysisVars == <<aPc, resizedImageData, fetchCalls, settled, failure>>
matVars == <<src, dst, deleteCalls, resizePc, resizeExit>>
clientVars == <<uiVars, analysisVars, matVars>>
vars == <<pc, analysisReq, imageData, converseCalls, converseInput, result,
          jsonText, analyzeErr, bedrockClient, responses, originalWidth,
          originalHeight, mode, target, sizePc, clientVars>>

(***************************************************************************)
(* Bounds of the model.                                                    *)
(***************************************************************************)
MaxImageLen == 5
MaxReplyLen == 3
SmallDimMax == 16
DimStride == 37
MaxStrides == 30

SeqsUpTo(A, n) == UNION {[1..k -> A] : k \in 0..n}

(***************************************************************************)
(* Go's strings package, on sequences of characters.                       *)
(***************************************************************************)
\* strings.Contains(s, c)
Contains(s, c) == \E i \in 1..Len(s) : s[i] = c

\* strings.Index(s, c): 0-based index of the first c, -1 when there is none
Index(s, c) ==
  IF Contains(s, c)
  THEN (CHOOSE i \in 1..Len(s) : s[i] = c /\ \A j \in 1..(i - 1) : s[j] # c) - 1
  ELSE -1

\* the index of the first c where that of the last c is meant
LastIndexAsFirst(s, c) == Index(s, c)

\* strings.LastIndex(s, c): 0-based index of the last c, -1 when there is none
LastIndex(s, c) ==
  IF Contains(s, c)
  THEN (CHOOSE i \in 1..Len(s) : s[i] = c /\ \A j \in (i + 1)..Len(s) : s[j] # c) - 1
  ELSE -1

\* the slice expression s[lo:hi] (0-based, hi exclusive)
Slice(s, lo, hi) == SubSeq(s, lo + 1, hi)

\* strings.Split(s, ","): the parts between the separators, in order
RECURSIVE Split(_, _)
Split(s, sep) ==
  IF ~Contains(s, sep)
  THEN <<s>>
  ELSE LET i == Index(s, sep)
       IN <<Slice(s, 0, i)>> \o Split(Slice(s, i + 1, Len(s)), sep)

(***************************************************************************)
(* encoding/base64: StdEncoding.DecodeString.  The model's alphabet holds  *)
(* one character of the base64 alphabet ('Q', value 16), the padding '=',  *)
(* the separator ',' and '!' (outside the base64 alphabet).                *)
(***************************************************************************)
decodeMap == [c \in {"Q"} |-> 16]
Base64Chars == DOMAIN decodeMap
ImageAlphabet == Base64Chars \cup {"=", ",", "!"}

\* DecodeString succeeds on: whole quanta of 4 characters, all of the
\* alphabet, padding only as the last one or two characters.
WellFormedBase64(s) ==
  /\ Len(s) % 4 = 0
  /\ \A i \in 1..Len(s) : s[i] \in Base64Chars \cup {"="}
  /\ \A i \in 1..Len(s) :
       s[i] = "=" => /\ i >= Len(s) - 1
                     /\ s[Len(s)] = "="

Sextet(c) == IF c = "=" THEN 0 ELSE decodeMap[c]

\* the 1, 2 or 3 bytes one quantum of 4 characters decodes to
QuantumBytes(q) ==
  LET n == Sextet(q[1]) * 262144 + Sextet(q[2]) * 4096 + Sextet(q[3]) * 64 + Sextet(q[4])
      b == <<n \div 65536, (n \div 256) % 256, n % 256>>
  IN IF q[3] = "=" THEN SubSeq(b, 1, 1)
     ELSE IF q[4] = "=" THEN SubSeq(b, 1, 2)
     ELSE b

RECURSIVE DecodeBytes(_)
DecodeBytes(s) ==
  IF Len(s) = 0 THEN <<>>
  ELSE QuantumBytes(SubSeq(s, 1, 4)) \o DecodeBytes(SubSeq(s, 5, Len(s)))

\* a decoder that reports no error on any input
DecodeStringLenient(s) == [err |-> FALSE, bytes |-> <<>>]

\* base64.StdEncoding.DecodeString(s): (bytes, err)
DecodeString(s) ==
  IF WellFormedBase64(s)
  THEN [err |-> FALSE, bytes |-> DecodeBytes(s)]
  ELSE [err |-> TRUE, bytes |-> <<>>]

(***************************************************************************)
(* The request: the body POSTed to /analyze.  kind "malformed" is a body   *)
(* ShouldBindJSON rejects, "absent" a JSON object without an image field,  *)
(* "image" one whose image field is the string `image`.                    *)
(***************************************************************************)
Requests == {"r1", "r2"}

NoRequest == [kind |-> "none", image |-> <<>>]

Images == SeqsUpTo(ImageAlphabet, MaxImageLen)

RequestBodies(imgs) ==
  {[kind |-> "malformed", image |-> <<>>], [kind |-> "absent", image |-> <<>>]}
    \cup {[kind |-> "image", image |-> s] : s \in imgs}

\* c.ShouldBindJSON(&analysisReq): the Image field is not marked required,
\* so a body without it binds with Image == "".
ShouldBindJSON(q) ==
  IF q.kind = "malformed"
  THEN [err |-> TRUE, Image |-> <<>>]
  ELSE [err |-> FALSE, Image |-> q.image]

\* "Clean base64 data": parts[1] of the split at ',' when there is a ','
CleanBase64(image) ==
  IF Contains(image, ",")
  THEN LET parts == Split(image, ",")
       IN IF Len(parts) > 1 THEN parts[2] ELSE image
  ELSE image

\* gin.H{"error": msg}
ErrorBody(msg) == [error |-> msg]

(***************************************************************************)
(* The reply of bedrockClient.Converse.  kind "err": err != nil;           *)
(* "nilOutput": result.Output == nil; "noText": the output is no message,  *)
(* has no content block, or its first block is not text; "text": the first *)
(* block is the text `text`.  The text is a sequence of tokens: "{", "}",  *)
(* "p" (a character of prose) and "s" (a member "score": <lit>, where lit  *)
(* is the reply's score literal).                                          *)
(***************************************************************************)
ReplyTokens == {"{", "}", "p", "s"}

ScoreInts == {-3, 0, 1, 7, 10, 11, 42}

NoLiteral == [kind |-> "none", val |-> 0]

\* a JSON integer, a JSON number that is no integer (7.5), a JSON string, null
ScoreLiterals ==
  {[kind |-> "int", val |-> n] : n \in ScoreInts}
    \cup {[kind |-> k, val |-> 0] : k \in {"float", "string", "null"}}

ReplyTexts == SeqsUpTo(ReplyTokens, MaxReplyLen)

Replies ==
  {[kind |-> k, text |-> <<>>, lit |-> NoLiteral] : k \in {"err", "nilOutput", "noText"}}
    \cup {[kind |-> "text", text |-> t, lit |-> NoLiteral] :
            t \in {u \in ReplyTexts : ~Contains(u, "s")}}
    \cup {[kind |-> "text", text |-> t, lit |-> l] :
            t \in {u \in ReplyTexts : Contains(u, "s")}, l \in ScoreLiterals}

NoReply == [kind |-> "none", text |-> <<>>, lit |-> NoLiteral]

\* main.go:176-183: the text of the first content block, "" otherwise
ResponseText(res) == IF res.kind = "text" THEN res.text ELSE <<>>

\* the zero value of AnalysisResponse
ZeroAnalysis ==
  [score |-> 0, composition |-> "", lighting |-> "", subject |-> "",
   strengths |-> <<>>, suggestions |-> <<>>]

\* json.Unmarshal([]byte(jsonText), &analysis) on the token text: a syntax
\* error unless the text is one object whose members are all "score"
\* members; an integer literal sets Score, null leaves it alone, any other
\* literal is an UnmarshalTypeError (returned after decoding the rest).
Unmarshal(text, lit) ==
  LET n == Len(text)
      syntaxOk == /\ n >= 2
                  /\ text[1] = "{"
                  /\ text[n] = "}"
                  /\ \A i \in 2..(n - 1) : text[i] = "s"
      hasScore == n > 2
  IN IF ~syntaxOk THEN [err |-> TRUE, analysis |-> ZeroAnalysis]
     ELSE IF ~hasScore \/ lit.kind = "null" THEN [err |-> FALSE, analysis |-> ZeroAnalysis]
     ELSE IF lit.kind = "int"
          THEN [err |-> FALSE, analysis |-> [ZeroAnalysis EXCEPT !.score = lit.val]]
          ELSE [err |-> TRUE, analysis |-> ZeroAnalysis]

\* ValidateScore without its upper clamp
ValidateScoreNoUpperClamp(score) == IF score < 1 THEN 1 ELSE score

\* "Validate score range" (main.go:206-211)
ValidateScore(score) ==
  IF score < 1 THEN 1
  ELSE IF score > 10 THEN 10
  ELSE score

\* an extraction that only requires both braces to be present
NoJSONFoundUnordered(jsonStart, jsonEnd) == jsonStart = -1 \/ jsonEnd = 0

\* main.go:192: the extraction gives up without parsing
NoJSONFound(jsonStart, jsonEnd) == jsonStart = -1 \/ jsonEnd <= jsonStart

\* what analyzeImageWithBedrock returns once Converse has returned `res`:
\* (analysis, err), with the text it handed to the JSON parser
AnalyzeReply(res) ==
  LET Fail(msg, jt) == [err |-> msg, analysis |-> ZeroAnalysis, jsonText |-> jt]
      responseText == ResponseText(res)
      jsonStart == Index(responseText, "{")
      jsonEnd == LastIndex(responseText, "}") + 1
      jt == Slice(responseText, jsonStart, jsonEnd)
      parsed == Unmarshal(jt, res.lit)
  IN IF res.kind = "err" THEN Fail("failed to call bedrock converse", <<>>)
     ELSE IF res.kind = "nilOutput" THEN Fail("no output in bedrock response", <<>>)
     ELSE IF responseText = <<>> THEN Fail("no text content in bedrock response", <<>>)
     ELSE IF NoJSONFound(jsonStart, jsonEnd)
          THEN Fail("no valid JSON found in response", <<>>)
     ELSE IF parsed.err THEN Fail("failed to parse analysis JSON", jt)
     ELSE [err |-> "",
           analysis |-> [parsed.analysis EXCEPT !.score = ValidateScore(parsed.analysis.score)],
           jsonText |-> jt]

\* the handler answering an error with err.Error() instead of the fixed message
AnalysisResponseLeaky(ret) ==
  IF ret.err # ""
  THEN [status |-> 500, body |-> ErrorBody(ret.err)]
  ELSE [status |-> 200, body |-> ret.analysis]

\* the handler ignoring err and answering with whatever analysis it was given
AnalysisResponseDegraded(ret) == [status |-> 200, body |-> ret.analysis]

\* main.go:79-87: the handler's response to what analyzeImageWithBedrock returned
AnalysisResponseOf(ret) ==
  IF ret.err # ""
  THEN [status |-> 500, body |-> ErrorBody("Failed to analyze image")]
  ELSE [status |-> 200, body |-> ret.analysis]

(***************************************************************************)
(* The handler of one request r, in three steps: up to the decision to     *)
(* call analyzeImageWithBedrock (main.go:48-76), the call of Converse      *)
(* (main.go:131-166), and everything after Converse returns                *)
(* (main.go:167-213, 80-87).                                               *)
(***************************************************************************)
Respond(r, resp) == responses' = [responses EXCEPT ![r] = Append(@, resp)]

\* main.go:48-76: bind, require the image, strip the prefix, validate base64
HandlerValidate(r, bodies) ==
  /\ pc[r] = "idle"
  /\ \E q \in bodies :
       LET bound == ShouldBindJSON(q)
           data == CleanBase64(bound.Image)
       IN /\ analysisReq' = [analysisReq EXCEPT ![r] = q]
          /\ IF bound.err
             THEN /\ Respond(r, [status |-> 400, body |-> ErrorBody("Invalid request format")])
                  /\ pc' = [pc EXCEPT ![r] = "done"]
                  /\ UNCHANGED imageData
             ELSE IF bound.Image = <<>>
             THEN /\ Respond(r, [status |-> 400, body |-> ErrorBody("Image data is required")])
                  /\ pc' = [pc EXCEPT ![r] = "done"]
                  /\ UNCHANGED imageData
             ELSE IF DecodeString(data).err
             THEN /\ Respond(r, [status |-> 400, body |-> ErrorBody("Invalid image data")])
                  /\ pc' = [pc EXCEPT ![r] = "done"]
                  /\ imageData' = [imageData EXCEPT ![r] = data]
             ELSE /\ pc' = [pc EXCEPT ![r] = "analyze"]
                  /\ imageData' = [imageData EXCEPT ![r] = data]
                  /\ UNCHANGED responses
  /\ UNCHANGED <<converseCalls, converseInput, result, jsonText, analyzeErr,
                 bedrockClient>>
  /\ UNCHANGED sizeVars
  /\ UNCHANGED clientVars

\* a handler keeping the payload in a variable all requests share: r reads
\* what another request in progress has stored there
SharedImage(r) ==
  IF \E q \in Requests \ {r} : pc[q] # "idle"
  THEN imageData[CHOOSE q \in Requests \ {r} : pc[q] # "idle"]
  ELSE imageData[r]

\* main.go:63, 79: the payload is a local of the handler, passed by value
HandlerImage(r) == imageData[r]

\* main.go:131-166: decode the image again, build the message, call Converse
ConverseCall(r) ==
  /\ pc[r] = "analyze"
  /\ LET decoded == DecodeString(HandlerImage(r))
     IN IF decoded.err
        THEN /\ Respond(r, [status |-> 500, body |-> ErrorBody("Failed to analyze image")])
             /\ pc' = [pc EXCEPT ![r] = "done"]
             /\ UNCHANGED <<converseCalls, converseInput>>
        ELSE /\ converseCalls' = [converseCalls EXCEPT ![r] = @ + 1]
             /\ converseInput' = [converseInput EXCEPT ![r] = decoded.bytes]
             /\ pc' = [pc EXCEPT ![r] = "converse"]
             /\ UNCHANGED responses
  /\ UNCHANGED <<analysisReq, imageData, result, jsonText, analyzeErr,
                 bedrockClient>>
  /\ UNCHANGED sizeVars
  /\ UNCHANGED clientVars

\* a handler that calls Converse again when the call failed
AfterConverseRetry(res) == IF res.kind = "err" THEN "analyze" ELSE "done"

\* main.go:166-169: whatever Converse returned, the request goes on to its
\* response; a failed call is reported, not repeated
AfterConverse(res) == "done"

\* main.go:166-213 and 80-87: Converse returns; extract, parse, validate, respond
ConverseReturn(r, replies) ==
  /\ pc[r] = "converse"
  /\ \E res \in replies :
       LET ret == AnalyzeReply(res)
       IN /\ result' = [result EXCEPT ![r] = res]
          /\ jsonText' = [jsonText EXCEPT ![r] = ret.jsonText]
          /\ analyzeErr' = [analyzeErr EXCEPT ![r] = ret.err]
          /\ Respond(r, AnalysisResponseOf(ret))
          /\ pc' = [pc EXCEPT ![r] = AfterConverse(res)]
  /\ UNCHANGED <<analysisReq, imageData, converseCalls, converseInput,
                 bedrockClient>>
  /\ UNCHANGED sizeVars
  /\ UNCHANGED clientVars

\* the analyses the client can have in flight at once
Analyses == {"a1", "a2"}

\* useState<AnalysisResult | null>(null)
NoResult == [overallScore |-> 0, of |-> "null"]

Init ==
  /\ pc = [r \in Requests |-> "idle"]
  /\ analysisReq = [r \in Requests |-> NoRequest]
  /\ imageData = [r \in Requests |-> <<>>]
  /\ converseCalls = [r \in Requests |-> 0]
  /\ converseInput = [r \in Requests |-> <<>>]
  /\ result = [r \in Requests |-> NoReply]
  /\ jsonText = [r \in Requests |-> <<>>]
  /\ analyzeErr = [r \in Requests |-> ""]
  /\ bedrockClient = "client"
  /\ responses = [r \in Requests |-> <<>>]
  /\ originalWidth = 0
  /\ originalHeight = 0
  /\ mode = "balanced"
  /\ target = [width |-> 0, height |-> 0]
  /\ sizePc = "idle"
  /\ showMagic = FALSE
  /\ showAnalysisModal = FALSE
  /\ isAnalyzing = FALSE
  /\ analysisResult = NoResult
  /\ showImageViewer = FALSE
  /\ capturedPhoto = FALSE
  /\ aPc = [a \in Analyses |-> "idle"]
  /\ resizedImageData = [a \in Analyses |-> "none"]
  /\ fetchCalls = [a \in Analyses |-> 0]
  /\ settled = [a \in Analyses |-> "none"]
  /\ failure = [a \in Analyses |-> ""]
  /\ src = "undefined"
  /\ dst = "undefined"
  /\ deleteCalls = [m \in {"src", "dst"} |-> 0]
  /\ resizePc = "idle"
  /\ resizeExit = "none"

\* one POST /analyze request, any body, any reply
Next ==
  \/ HandlerValidate("r1", RequestBodies(Images))
  \/ ConverseCall("r1")
  \/ ConverseReturn("r1", Replies)

Spec == Init /\ [][Next]_vars

(***************************************************************************)
(* The client's image normalisation: calculateTargetSize.                  *)
(*                                                                         *)
(* The code computes in IEEE-754 doubles.  The model computes the exact    *)
(* rational [n, d] each double approximates; the doubles are within a      *)
(* relative error of a few 2^-53 of it, far less than the distance of any  *)
(* value that is not a tie from the nearest tie.  So Math.round gives the  *)
(* exact rounding except on an exact tie k + 1/2, where the double may lie *)
(* on either side (13 x 360 under cost_optimized gives width 6, not 7),    *)
(* and a comparison gives the exact answer except between equal values.    *)
(***************************************************************************)
PROCESSING_CONFIGS ==
  [high_quality   |-> [maxWidth |-> 800, maxHeight |-> 600],
   balanced       |-> [maxWidth |-> 512, maxHeight |-> 384],
   cost_optimized |-> [maxWidth |-> 240, maxHeight |-> 180]]

ProcessingMode == DOMAIN PROCESSING_CONFIGS

Rat(n, d) == [n |-> n, d |-> d]
\* a re-derivation that drops the aspect ratio
RatMulDropsRatio(x, y) == x

RatMul(x, y) == [n |-> x.n * y.n, d |-> x.d * y.d]
RatDiv(x, y) == [n |-> x.n * y.d, d |-> x.d * y.n]

\* the fit that forgets the source size
MinIgnoringSource(a, b) == a

\* Math.min on integers
Min(a, b) == IF a < b THEN a ELSE b

\* a fit whose fallback branch is never taken
NeverExceeds(x, m) == {FALSE}

\* the outcomes of the double comparison x > m, m an integer
Exceeds(x, m) ==
  IF x.n = m * x.d THEN {TRUE, FALSE} ELSE {x.n > m * x.d}

\* the outcomes of Math.round(x): floor(x + 1/2), either neighbour on a tie
MathRound(x) ==
  LET up == (2 * x.n + x.d) \div (2 * x.d)
  IN IF (2 * x.n + x.d) % (2 * x.d) = 0 THEN {up - 1, up} ELSE {up}

\* { width: Math.round(width), height: Math.round(height) }
RoundedSize(width, height) ==
  {[width |-> w, height |-> h] : w \in MathRound(width), h \in MathRound(height)}

\* the sizes calculateTargetSize can return
calculateTargetSize(oW, oH, maxWidth, maxHeight) ==
  LET aspectRatio == Rat(oW, oH)
  IN IF oW > oH
     THEN \* Landscape: fit to width first
          LET width == Rat(Min(maxWidth, oW), 1)
              height == RatDiv(width, aspectRatio)
          IN UNION {IF over
                    THEN RoundedSize(RatMul(Rat(maxHeight, 1), aspectRatio), Rat(maxHeight, 1))
                    ELSE RoundedSize(width, height) : over \in Exceeds(height, maxHeight)}
     ELSE \* Portrait: fit to height first
          LET height == Rat(Min(maxHeight, oH), 1)
              width == RatMul(height, aspectRatio)
          IN UNION {IF over
                    THEN RoundedSize(Rat(maxWidth, 1), RatDiv(Rat(maxWidth, 1), aspectRatio))
                    ELSE RoundedSize(width, height) : over \in Exceeds(width, maxWidth)}

\* the source sizes tried: every small size, a grid of larger ones, and the
\* sizes at and next to each preset's bounds
SourceDims ==
  (1..SmallDimMax)
    \cup {DimStride * k : k \in 1..MaxStrides}
    \cup UNION {{PROCESSING_CONFIGS[m].maxWidth + e, PROCESSING_CONFIGS[m].maxHeight + e} :
                  m \in ProcessingMode, e \in {-1, 0, 1}}

\* resizeWithOpenCV reads the source into src (part_002:91) under the mode's preset
LoadImage ==
  /\ sizePc = "idle"
  /\ \E w \in SourceDims, h \in SourceDims, m \in ProcessingMode :
       /\ originalWidth' = w
       /\ originalHeight' = h
       /\ mode' = m
  /\ sizePc' = "loaded"
  /\ UNCHANGED target
  /\ UNCHANGED serverVars
  /\ UNCHANGED clientVars

\* part_002:92: const { width, height } = calculateTargetSize(src.cols, src.rows, ...)
CalculateTargetSize ==
  /\ sizePc = "loaded"
  /\ \E t \in calculateTargetSize(originalWidth, originalHeight,
                                  PROCESSING_CONFIGS[mode].maxWidth,
                                  PROCESSING_CONFIGS[mode].maxHeight) :
       target' = t
  /\ sizePc' = "sized"
  /\ UNCHANGED <<originalWidth, originalHeight, mode>>
  /\ UNCHANGED serverVars
  /\ UNCHANGED clientVars

NextSize == LoadImage \/ CalculateTargetSize

SpecSize == Init /\ [][NextSize]_vars

(***************************************************************************)
(* Notions the claims are stated with.                                     *)
(***************************************************************************)
\* the handler of request r has returned
Done(r) == pc[r] = "done"

\* request r got exactly one response, with this status
AnsweredOnce(r, status) ==
  /\ Len(responses[r]) = 1
  /\ responses[r][1].status = status

\* the body is an error message and nothing else
OnlyErrorMessage(body) == DOMAIN body = {"error"}

\* the payload as the specification defines it: everything after the first
\* ',' when there is one, the whole string otherwise
PayloadAfterFirstSeparator(image) ==
  IF Contains(image, ",")
  THEN Slice(image, Index(image, ",") + 1, Len(image))
  ELSE image

\* the reply of r had a payload that was extracted and is one JSON object
PayloadIsObject(r) ==
  /\ result[r].kind = "text"
  /\ Len(jsonText[r]) >= 2
  /\ \A i \in 2..(Len(jsonText[r]) - 1) : jsonText[r][i] = "s"

\* ... and that object has a score member
PayloadHasScore(r) == PayloadIsObject(r) /\ Len(jsonText[r]) > 2

(***************************************************************************)
(* C1: a payload that parses with integer score s is answered 200 with     *)
(* score 1 when s < 1, 10 when s > 10 and s itself otherwise, and every    *)
(* 200 response carries a score in 1..10.                                  *)
(***************************************************************************)
C1_ScoreClamped ==
  \A r \in Requests :
    /\ \A i \in 1..Len(responses[r]) :
         responses[r][i].status = 200 => responses[r][i].body.score \in 1..10
    /\ (Done(r) /\ PayloadHasScore(r) /\ result[r].lit.kind = "int") =>
         LET s == result[r].lit.val
             score == responses[r][1].body.score
         IN /\ AnsweredOnce(r, 200)
            /\ s < 1 => score = 1
            /\ s > 10 => score = 10
            /\ (1 <= s /\ s <= 10) => score = s

\* the model said 42 and the client was told 10
C1_Witness ==
  \E r \in Requests :
    /\ Done(r) /\ PayloadHasScore(r)
    /\ result[r].lit = [kind |-> "int", val |-> 42]
    /\ AnsweredOnce(r, 200)
    /\ responses[r][1].body.score = 10

\* an image field that is absent, empty or not decodable, in the specification's terms
C2_BadImage(q) ==
  \/ q.kind = "absent"
  \/ /\ q.kind = "image"
     /\ \/ q.image = <<>>
        \/ ~WellFormedBase64(PayloadAfterFirstSeparator(q.image))

(***************************************************************************)
(* C2: a request whose image field is absent or empty, or whose payload    *)
(* (everything after the first ',') is not well-formed base64, is answered *)
(* 400 with an error message, never 200 or 500.                            *)
(***************************************************************************)
C2_BadImageAnswered400 ==
  \A r \in Requests :
    (Done(r) /\ C2_BadImage(analysisReq[r])) =>
      /\ AnsweredOnce(r, 400)
      /\ OnlyErrorMessage(responses[r][1].body)

(***************************************************************************)
(* C3: the score is mandatory: a payload without a score member, or with a *)
(* score that is not a number, is answered 500, never 200.                 *)
(***************************************************************************)
C3_ScoreMandatory ==
  \A r \in Requests :
    (/\ Done(r)
     /\ PayloadIsObject(r)
     /\ \/ ~PayloadHasScore(r)
        \/ result[r].lit.kind \in {"string", "null"}) =>
      AnsweredOnce(r, 500)

(***************************************************************************)
(* C4: the payload the handler validates and decodes is everything after   *)
(* the first ',' of the image (later ',' included), or the whole image     *)
(* when it has no ','.                                                     *)
(***************************************************************************)
C4_PayloadIsAllAfterFirstComma ==
  \A r \in Requests :
    (/\ pc[r] # "idle"
     /\ analysisReq[r].kind = "image"
     /\ analysisReq[r].image # <<>>) =>
      imageData[r] = PayloadAfterFirstSeparator(analysisReq[r].image)

\* the call failed, or its reply has no text, no payload or a payload that does not parse
C5_ReplyUnusable(res) ==
  LET text == ResponseText(res)
      first == Index(text, "{")
      last == LastIndex(text, "}")
  IN \/ res.kind \in {"err", "nilOutput", "noText"}
     \/ text = <<>>
     \/ first = -1
     \/ last = -1
     \/ last < first
     \/ Unmarshal(Slice(text, first, last + 1), res.lit).err

(***************************************************************************)
(* C5: when the inference call fails, returns no output or no text, or the *)
(* reply cannot be extracted or parsed, the one response is 500 with the   *)
(* fixed message and nothing else: no part of the reply, no analysis field.*)
(***************************************************************************)
C5_FailureIsGeneric500 ==
  \A r \in Requests :
    (Done(r) /\ converseCalls[r] > 0 /\ C5_ReplyUnusable(result[r])) =>
      responses[r] = <<[status |-> 500, body |-> [error |-> "Failed to analyze image"]]>>

\* a reply whose payload does not parse (its score is a string) was answered 500
C5_Witness ==
  \E r \in Requests :
    /\ Done(r) /\ PayloadHasScore(r)
    /\ result[r].lit.kind = "string"
    /\ AnsweredOnce(r, 500)

(***************************************************************************)
(* C6: a request gets no response before its handler returns and exactly   *)
(* one when it does: a 200 with a full record whose score passed           *)
(* validation, produced after extraction and parsing, or a 400 or 500 with *)
(* an error message and nothing else.                                      *)
(***************************************************************************)
C6_OneWholeResponse ==
  \A r \in Requests :
    /\ Len(responses[r]) = (IF Done(r) THEN 1 ELSE 0)
    /\ Done(r) =>
         LET resp == responses[r][1]
         IN \/ /\ resp.status = 200
               /\ DOMAIN resp.body = DOMAIN ZeroAnalysis
               /\ resp.body.score \in 1..10
               /\ converseCalls[r] = 1
               /\ PayloadIsObject(r)
               /\ ~Unmarshal(jsonText[r], result[r].lit).err
            \/ /\ resp.status \in {400, 500}
               /\ OnlyErrorMessage(resp.body)

\* a request answered 200
C6_Witness ==
  \E r \in Requests :
    /\ Done(r)
    /\ AnsweredOnce(r, 200)
    /\ result[r].lit = [kind |-> "int", val |-> 7]
    /\ responses[r][1].body.score = 7

(***************************************************************************)
(* C7: a request makes at most one Converse call: exactly one once it has  *)
(* passed decoding (also when the call fails), none when it is answered    *)
(* 400.                                                                    *)
(***************************************************************************)
C7_AtMostOneCall ==
  \A r \in Requests :
    /\ converseCalls[r] <= 1
    /\ (Done(r) /\ responses[r][1].status = 400) => converseCalls[r] = 0
    /\ (Done(r) /\ responses[r][1].status # 400) => converseCalls[r] = 1
    /\ pc[r] = "converse" => converseCalls[r] = 1

\* a request whose one call failed has returned
C7_Witness ==
  \E r \in Requests :
    /\ Done(r)
    /\ result[r].kind = "err"
    /\ converseCalls[r] = 1
    /\ AnsweredOnce(r, 500)

(***************************************************************************)
(* calculateTargetSize: the claims speak of the size it returned (target)  *)
(* for the source originalWidth x originalHeight under the mode's preset.  *)
(***************************************************************************)
Sized == sizePc = "sized"

presetMaxWidth == PROCESSING_CONFIGS[mode].maxWidth
presetMaxHeight == PROCESSING_CONFIGS[mode].maxHeight

Abs(x) == IF x < 0 THEN -x ELSE x
Max(a, b) == IF a > b THEN a ELSE b

\* the fit to the width overshoots maxHeight, so the fallback re-derives the
\* width.  (The portrait fallback needs min(maxHeight, H) * W / H > maxWidth
\* with W <= H; no preset has maxWidth < maxHeight, so it is never taken.)
LandscapeFallback ==
  /\ originalWidth > originalHeight
  /\ Min(presetMaxWidth, originalWidth) * originalHeight > presetMaxHeight * originalWidth

(***************************************************************************)
(* C8: whatever the source size and preset, the returned width is at most  *)
(* the preset's maxWidth and the returned height at most its maxHeight.    *)
(***************************************************************************)
C8_WithinPreset ==
  Sized => /\ target.width <= presetMaxWidth
           /\ target.height <= presetMaxHeight

\* a landscape source whose fit to the width was too tall
C8_Witness ==
  /\ Sized
  /\ LandscapeFallback
  /\ target.height = presetMaxHeight
  /\ target.width < presetMaxWidth

(***************************************************************************)
(* C9: the returned size keeps the aspect ratio within one pixel:          *)
(* |width * H - height * W| <= max(W, H) for the source W x H.             *)
(***************************************************************************)
C9_AspectRatioKept ==
  Sized =>
    Abs(target.width * originalHeight - target.height * originalWidth)
      <= Max(originalWidth, originalHeight)

\* a landscape source whose fit to the width was too tall, and whose
\* re-derived width had to be rounded
C9_Witness ==
  /\ Sized
  /\ LandscapeFallback
  /\ target.height = presetMaxHeight
  /\ target.width * originalHeight # target.height * originalWidth

(***************************************************************************)
(* C10: the returned size is never larger than the source in either        *)
(* dimension, and is the source size itself when the source already fits   *)
(* the preset.                                                             *)
(***************************************************************************)
C10_NeverUpscales ==
  Sized =>
    /\ target.width <= originalWidth
    /\ target.height <= originalHeight
    /\ (originalWidth <= presetMaxWidth /\ originalHeight <= presetMaxHeight) =>
         target = [width |-> originalWidth, height |-> originalHeight]

\* a source smaller than the preset in both dimensions came back unchanged
C10_Witness ==
  /\ Sized
  /\ originalWidth < presetMaxWidth
  /\ originalHeight < presetMaxHeight
  /\ originalWidth > originalHeight
  /\ originalHeight > 1
  /\ target = [width |-> originalWidth, height |-> originalHeight]

(***************************************************************************)
(* Two requests that differ only by a prefix: r1 posts a bare well-formed  *)
(* payload p, then r2 posts m + "," + p for a prefix m without ",", and    *)
(* Converse gives r2 the reply it gave r1.                                 *)
(***************************************************************************)
MaxPrefixLen == 2

BarePayloads == {s \in Images : WellFormedBase64(s)}

Prefixes == SeqsUpTo(ImageAlphabet \ {","}, MaxPrefixLen)

Prefixed(p) == {m \o <<",">> \o p : m \in Prefixes}

ImageBodies(imgs) == {[kind |-> "image", image |-> s] : s \in imgs}

SameReply(r) == IF result[r] = NoReply THEN Replies ELSE {result[r]}

NextPrefix ==
  \/ HandlerValidate("r1", ImageBodies(BarePayloads))
  \/ ConverseCall("r1")
  \/ ConverseReturn("r1", Replies)
  \/ (Done("r1") /\ HandlerValidate("r2", ImageBodies(Prefixed(analysisReq["r1"].image))))
  \/ ConverseCall("r2")
  \/ ConverseReturn("r2", SameReply("r1"))

SpecPrefix == Init /\ [][NextPrefix]_vars

(***************************************************************************)
(* C11: for every well-formed base64 payload p and every prefix m without  *)
(* ",", the request with image m + "," + p sends Converse the same bytes   *)
(* and is answered with the same response as the request with image p.     *)
(***************************************************************************)
C11_PrefixImmaterial ==
  (Done("r1") /\ Done("r2")) =>
    /\ converseCalls["r2"] = converseCalls["r1"]
    /\ converseInput["r2"] = converseInput["r1"]
    /\ responses["r2"] = responses["r1"]

\* the same, for the payloads that are not the empty string
C11_NonEmptyPayload ==
  (Done("r1") /\ Done("r2") /\ analysisReq["r1"].image # <<>>) =>
    /\ converseCalls["r2"] = 1
    /\ converseCalls["r1"] = 1
    /\ converseInput["r2"] = converseInput["r1"]
    /\ responses["r2"] = responses["r1"]

(***************************************************************************)
(* The client's analysis flow.  An analysis a is one call of               *)
(* analyzeCurrentFrame; it waits, in turn, for tempImg to load             *)
(* ("tempImg"), for cvReadyPromise ("opencv"), for the image of            *)
(* resizeImageForAnalysis to load ("img"), for fetch ("fetch") and for     *)
(* response.json() ("json").  Everything between two waits runs without    *)
(* interruption and is one step.  A slot whose analysis is over can be     *)
(* used again, so any number of analyses follow each other and up to two   *)
(* are in flight at once.                                                  *)
(***************************************************************************)
\* what the capture at part_001:263-279 finds
Frames == {"noRefs", "noContext", "tooSmall", "frame"}

\* result.score of the backend's answer, below and above the modal's 7
Scores == {5, 8}

\* the errors resizeImageForAnalysis throws (part_002:9, 133, 144)
OpenCVNotReady == "OpenCV is not ready"
FailedToLoadImage == "Failed to load image"
OpenCVResizingFailed == "OpenCV resizing failed, please check console for details"

InFlight(a) == aPc[a] \in {"tempImg", "opencv", "img", "fetch", "json"}

\* part_001:440: the modal is rendered
ModalShown == showAnalysisModal /\ analysisResult # NoResult

\* a catch that logs the error and leaves the indicator as it is
RejectKeepsIndicator(a, msg) ==
  /\ aPc' = [aPc EXCEPT ![a] = "done"]
  /\ settled' = [settled EXCEPT ![a] = "rejected"]
  /\ failure' = [failure EXCEPT ![a] = msg]
  /\ UNCHANGED <<showMagic, isAnalyzing, showAnalysisModal, analysisResult>>

\* analyzePhoto rejects with msg (part_001:249-256) and the catch of
\* analyzeCurrentFrame runs (part_001:294-299)
Reject(a, msg) ==
  /\ aPc' = [aPc EXCEPT ![a] = "done"]
  /\ settled' = [settled EXCEPT ![a] = "rejected"]
  /\ failure' = [failure EXCEPT ![a] = msg]
  /\ showMagic' = FALSE
  /\ isAnalyzing' = FALSE
  /\ UNCHANGED <<showAnalysisModal, analysisResult>>

\* analyzePhoto resolves (part_001:238-248) and analyzeCurrentFrame goes on
\* after its await (part_001:289-293)
Resolve(a, score) ==
  /\ aPc' = [aPc EXCEPT ![a] = "done"]
  /\ settled' = [settled EXCEPT ![a] = "resolved"]
  /\ showMagic' = FALSE
  /\ analysisResult' = [overallScore |-> score, of |-> a]
  /\ showAnalysisModal' = TRUE
  /\ isAnalyzing' = FALSE
  /\ UNCHANGED failure

\* part_001:262-287 and 179-182, 258: capture the frame, give up on a frame
\* that is missing or too small, else raise the indicator and start loading
analyzeCurrentFrame(a) ==
  /\ aPc[a] \in {"idle", "done"}
  /\ resizedImageData' = [resizedImageData EXCEPT ![a] = "none"]
  /\ fetchCalls' = [fetchCalls EXCEPT ![a] = 0]
  /\ failure' = [failure EXCEPT ![a] = ""]
  /\ \E frame \in Frames :
       IF frame # "frame"
       THEN /\ aPc' = [aPc EXCEPT ![a] = "done"]
            /\ settled' = [settled EXCEPT ![a] = "skipped"]
            /\ UNCHANGED <<showMagic, isAnalyzing>>
       ELSE /\ aPc' = [aPc EXCEPT ![a] = "tempImg"]
            /\ settled' = [settled EXCEPT ![a] = "none"]
            /\ showMagic' = TRUE
            /\ isAnalyzing' = TRUE
  /\ UNCHANGED <<showAnalysisModal, analysisResult, showImageViewer, capturedPhoto>>
  /\ UNCHANGED <<serverVars, sizeVars, matVars>>

\* part_001:314-316, 346-352: the magic-wand button, always rendered
triggerMagic(a) == analyzeCurrentFrame(a)

\* AnalysisModal.tsx:85-93: the Re-analyze button of a modal with score >= 7
Reanalyze(a) ==
  /\ ModalShown
  /\ analysisResult.overallScore >= 7
  /\ analyzeCurrentFrame(a)

\* the analysis goes on to its next wait; the indicator is left alone
Await(a, next) ==
  /\ aPc' = [aPc EXCEPT ![a] = next]
  /\ UNCHANGED <<settled, failure, showMagic, isAnalyzing, showAnalysisModal,
                 analysisResult>>

\* part_001:183-197, 254-256: tempImg loads and resizeImageForAnalysis starts
\* waiting for OpenCV, or tempImg fails to load
TempImgSettles(a) ==
  /\ aPc[a] = "tempImg"
  /\ \E loaded \in BOOLEAN :
       IF loaded THEN Await(a, "opencv")
       ELSE Reject(a, "Failed to load image for analysis")
  /\ UNCHANGED <<resizedImageData, fetchCalls, showImageViewer, capturedPhoto>>
  /\ UNCHANGED <<serverVars, sizeVars, matVars>>

\* part_002:6-12, 127-135: cvReadyPromise settles; waitForOpenCVReady throws
\* when cv is not usable, else the image starts loading
waitForOpenCVReady(a) ==
  /\ aPc[a] = "opencv"
  /\ \E ready \in {"ready", "notReady", "promiseRejected"} :
       IF ready = "ready" THEN Await(a, "img")
       ELSE IF ready = "notReady" THEN Reject(a, OpenCVNotReady)
       ELSE Reject(a, "cvReadyPromise rejected")
  /\ UNCHANGED <<resizedImageData, fetchCalls, showImageViewer, capturedPhoto>>
  /\ UNCHANGED <<serverVars, sizeVars, matVars>>

\* how the load of the image and resizeWithOpenCV can end (part_002:130-145)
ResizeOutcomes == {"imgError", "resizeThrows", "ok"}

\* the error resizeImageForAnalysis throws on outcome o
ResizeError(o) ==
  IF o = "imgError" THEN FailedToLoadImage
  ELSE IF o = "resizeThrows" THEN OpenCVResizingFailed
  ELSE ""

\* an analyzePhoto that posts the frame whatever the resize did
IssuesFetchAlways(o) == TRUE

\* part_001:194-229: the fetch is issued only once the await of
\* resizeImageForAnalysis has returned a value
IssuesFetch(o) == o = "ok"

\* part_002:130-147 and part_001:194-229: the image settles; on a load
\* resizeWithOpenCV runs; on its return analyzePhoto posts the resized image
resizeImageForAnalysis(a) ==
  /\ aPc[a] = "img"
  /\ \E o \in ResizeOutcomes :
       /\ resizedImageData' = [resizedImageData EXCEPT ![a] = IF o = "ok" THEN "dataURL" ELSE @]
       /\ fetchCalls' = [fetchCalls EXCEPT ![a] = IF IssuesFetch(o) THEN @ + 1 ELSE @]
       /\ IF o = "ok" THEN Await(a, "fetch") ELSE Reject(a, ResizeError(o))
  /\ UNCHANGED <<showImageViewer, capturedPhoto>>
  /\ UNCHANGED <<serverVars, sizeVars, matVars>>

\* part_001:221-235: fetch settles: network error, a status that is not ok,
\* or an ok response whose body is then read
FetchSettles(a) ==
  /\ aPc[a] = "fetch"
  /\ \E o \in {"networkError", "notOk", "ok"} :
       IF o = "ok" THEN Await(a, "json")
       ELSE IF o = "notOk" THEN Reject(a, "API call failed")
       ELSE Reject(a, "Failed to fetch")
  /\ UNCHANGED <<resizedImageData, fetchCalls, showImageViewer, capturedPhoto>>
  /\ UNCHANGED <<serverVars, sizeVars, matVars>>

\* part_001:235-251, 289-293: response.json() settles
JsonSettles(a) ==
  /\ aPc[a] = "json"
  /\ \/ \E score \in Scores : Resolve(a, score)
     \/ Reject(a, "response.json() rejected")
  /\ UNCHANGED <<resizedImageData, fetchCalls, showImageViewer, capturedPhoto>>
  /\ UNCHANGED <<serverVars, sizeVars, matVars>>

\* part_001:302-305
closeAnalysisModal ==
  /\ ModalShown
  /\ showAnalysisModal' = FALSE
  /\ analysisResult' = NoResult
  /\ UNCHANGED <<showMagic, isAnalyzing, showImageViewer, capturedPhoto>>
  /\ UNCHANGED <<analysisVars, serverVars, sizeVars, matVars>>

\* part_001:307-312, 138-152: close the modal, then takePicture
takePhotoFromAnalysis ==
  /\ ModalShown
  /\ showAnalysisModal' = FALSE
  /\ analysisResult' = NoResult
  /\ \E captured \in BOOLEAN :
       IF captured
       THEN capturedPhoto' = TRUE /\ showImageViewer' = TRUE
       ELSE UNCHANGED <<capturedPhoto, showImageViewer>>
  /\ UNCHANGED <<showMagic, isAnalyzing>>
  /\ UNCHANGED <<analysisVars, serverVars, sizeVars, matVars>>

\* part_001:171-174
discardPhoto ==
  /\ showImageViewer
  /\ capturedPhoto
  /\ capturedPhoto' = FALSE
  /\ showImageViewer' = FALSE
  /\ UNCHANGED <<showMagic, isAnalyzing, showAnalysisModal, analysisResult>>
  /\ UNCHANGED <<analysisVars, serverVars, sizeVars, matVars>>

NextClient ==
  \/ \E a \in Analyses :
       \/ triggerMagic(a)
       \/ Reanalyze(a)
       \/ TempImgSettles(a)
       \/ waitForOpenCVReady(a)
       \/ resizeImageForAnalysis(a)
       \/ FetchSettles(a)
       \/ JsonSettles(a)
  \/ closeAnalysisModal
  \/ takePhotoFromAnalysis
  \/ discardPhoto

SpecClient == Init /\ [][NextClient]_vars

(***************************************************************************)
(* C12: whenever resizeImageForAnalysis fails (OpenCV not ready, the image *)
(* fails to load, or resizeWithOpenCV throws), analyzePhoto rejects, no    *)
(* POST /analyze is issued and no resized image data is produced.          *)
(***************************************************************************)
C12_ResizeFailureRejectsBeforeFetch ==
  \A a \in Analyses :
    failure[a] \in {OpenCVNotReady, FailedToLoadImage, OpenCVResizingFailed} =>
      /\ settled[a] = "rejected"
      /\ fetchCalls[a] = 0
      /\ resizedImageData[a] = "none"

C12_Witness ==
  /\ failure["a1"] = OpenCVResizingFailed
  /\ settled["a1"] = "rejected"
  /\ failure["a2"] = OpenCVNotReady
  /\ settled["a2"] = "rejected"

(***************************************************************************)
(* C13: Converse is invoked only after the payload has been validated as   *)
(* well-formed base64; a request whose payload fails to decode ends with   *)
(* no Converse call attempted.                                             *)
(***************************************************************************)
C13_DecodeBeforeInvoke ==
  \A r \in Requests :
    IF pc[r] = "idle" THEN converseCalls[r] = 0
    ELSE LET validated == WellFormedBase64(imageData[r])
         IN /\ converseCalls[r] > 0 =>
                 /\ analysisReq[r].kind = "image"
                 /\ imageData[r] = CleanBase64(analysisReq[r].image)
                 /\ validated
            /\ ~validated =>
                 /\ Done(r)
                 /\ converseCalls[r] = 0
                 /\ result[r] = NoReply

C13_Witness ==
  /\ pc["r1"] = "converse"
  /\ converseCalls["r1"] = 1
  /\ Len(imageData["r1"]) = 4
  /\ Contains(analysisReq["r1"].image, ",")

\* the text has a "{" followed, somewhere later, by a "}"
BraceBeforeBrace(t) ==
  \E i \in 1..Len(t) : \E j \in (i + 1)..Len(t) : t[i] = "{" /\ t[j] = "}"

\* request r is over and Converse had answered it with a non-empty text
RepliedWithText(r) ==
  /\ Done(r)
  /\ result[r].kind = "text"
  /\ result[r].text # <<>>

(***************************************************************************)
(* C14: for every non-empty reply text, the extraction fails (nothing is   *)
(* handed to the parser, the request ends in 500) exactly when the text    *)
(* has no "{", has no "}", or its last "}" does not lie after its first    *)
(* "{"; so it fails on "}{", on "}" alone and on "{" alone.                *)
(***************************************************************************)
C14_ExtractionFailsExactly ==
  \A r \in Requests :
    RepliedWithText(r) =>
      LET located == BraceBeforeBrace(result[r].text)
      IN /\ analyzeErr[r] = "no valid JSON found in response" <=> ~located
         /\ ~located => (jsonText[r] = <<>> /\ AnsweredOnce(r, 500))
         /\ located => jsonText[r] # <<>>

C14_Witness ==
  /\ RepliedWithText("r1")
  /\ result["r1"].text = <<"}", "{">>
  /\ analyzeErr["r1"] = "no valid JSON found in response"

(***************************************************************************)
(* C15: whenever the reply has a "{" followed later by a "}", the text     *)
(* handed to the JSON parser is exactly the reply from its first "{"       *)
(* through its last "}" inclusive; what surrounds it is ignored.           *)
(***************************************************************************)
C15_ParsedTextIsFirstToLastBrace ==
  \A r \in Requests :
    (RepliedWithText(r) /\ BraceBeforeBrace(result[r].text)) =>
      LET t == result[r].text
      IN \E i \in 1..Len(t) : \E j \in (i + 1)..Len(t) :
           /\ t[i] = "{"
           /\ \A k \in 1..(i - 1) : t[k] # "{"
           /\ t[j] = "}"
           /\ \A k \in (j + 1)..Len(t) : t[k] # "}"
           /\ jsonText[r] = SubSeq(t, i, j)

C15_Witness ==
  /\ RepliedWithText("r1")
  /\ result["r1"].text = <<"p", "{", "}">>
  /\ jsonText["r1"] = <<"{", "}">>
  /\ AnsweredOnce("r1", 200)

(***************************************************************************)
(* resizeWithOpenCV (part_002:75-109), statement by statement, so that     *)
(* every statement that can throw is an exit path of its own.  src and dst *)
(* are "undefined" until assigned, "live" once allocated and "deleted"     *)
(* after delete().  resizePc names the statement about to run; resizeExit  *)
(* records how the try block ended.                                        *)
(***************************************************************************)
\* a cleanup that only runs when the try block ran to its end
AfterThrowNoFinally == "exit"

\* part_002:104: an exception in the try block passes through finally
AfterThrow == "finally"

\* the statement at resizePc completes and control moves to next
Completes(next) == resizePc' = next /\ UNCHANGED resizeExit

\* the statement at resizePc throws
Throws == resizePc' = AfterThrow /\ resizeExit' = "thrown"

\* part_002:75-81: the call; src, dst and the sizes are fresh locals
CallResizeWithOpenCV ==
  /\ resizePc \in {"idle", "exit"}
  /\ \E md \in ProcessingMode : mode' = md
  /\ src' = "undefined"
  /\ dst' = "undefined"
  /\ deleteCalls' = [m \in {"src", "dst"} |-> 0]
  /\ resizePc' = "draw"
  /\ resizeExit' = "none"
  /\ originalWidth' = 0
  /\ originalHeight' = 0
  /\ target' = [width |-> 0, height |-> 0]
  /\ UNCHANGED sizePc
  /\ UNCHANGED <<serverVars, uiVars, analysisVars>>

\* part_002:85-89: the canvas, its context, drawImage
DrawSource ==
  /\ resizePc = "draw"
  /\ (Completes("imread") \/ Throws)
  /\ UNCHANGED <<src, dst, deleteCalls, sizeVars>>
  /\ UNCHANGED <<serverVars, uiVars, analysisVars>>

\* part_002:91: src = cv.imread(canvas); a throw leaves src unassigned
Imread ==
  /\ resizePc = "imread"
  /\ \/ /\ src' = "live"
        /\ \E w \in SourceDims, h \in SourceDims :
             /\ originalWidth' = w
             /\ originalHeight' = h
        /\ Completes("size")
     \/ /\ Throws
        /\ UNCHANGED <<src, originalWidth, originalHeight>>
  /\ UNCHANGED <<dst, deleteCalls, mode, target, sizePc>>
  /\ UNCHANGED <<serverVars, uiVars, analysisVars>>

\* part_002:92: calculateTargetSize(src.cols, src.rows, maxWidth, maxHeight)
SizeTarget ==
  /\ resizePc = "size"
  /\ target' \in calculateTargetSize(originalWidth, originalHeight,
                                     PROCESSING_CONFIGS[mode].maxWidth,
                                     PROCESSING_CONFIGS[mode].maxHeight)
  /\ Completes("newMat")
  /\ UNCHANGED <<src, dst, deleteCalls, originalWidth, originalHeight, mode, sizePc>>
  /\ UNCHANGED <<serverVars, uiVars, analysisVars>>

\* part_002:95: dst = new cv.Mat(); a throw leaves dst unassigned
NewMat ==
  /\ resizePc = "newMat"
  /\ \/ dst' = "live" /\ Completes("resize")
     \/ Throws /\ UNCHANGED dst
  /\ UNCHANGED <<src, deleteCalls, sizeVars>>
  /\ UNCHANGED <<serverVars, uiVars, analysisVars>>

\* part_002:96-97: cv.resize(src, dst, targetSize, 0, 0, INTER_AREA); with
\* both scale factors 0 OpenCV rejects an empty target size
CvResize ==
  /\ resizePc = "resize"
  /\ \/ target.width >= 1 /\ target.height >= 1 /\ Completes("imshow")
     \/ Throws
  /\ UNCHANGED <<src, dst, deleteCalls, sizeVars>>
  /\ UNCHANGED <<serverVars, uiVars, analysisVars>>

\* part_002:100-101: the output canvas and cv.imshow
Imshow ==
  /\ resizePc = "imshow"
  /\ (Completes("toDataURL") \/ Throws)
  /\ UNCHANGED <<src, dst, deleteCalls, sizeVars>>
  /\ UNCHANGED <<serverVars, uiVars, analysisVars>>

\* part_002:102: return outputCanvas.toDataURL('image/jpeg', quality)
ToDataURL ==
  /\ resizePc = "toDataURL"
  /\ \/ resizePc' = "finally" /\ resizeExit' = "returned"
     \/ Throws
  /\ UNCHANGED <<src, dst, deleteCalls, sizeVars>>
  /\ UNCHANGED <<serverVars, uiVars, analysisVars>>

\* m.delete() when m is set
DeleteIfSet(m) == IF m = "undefined" THEN m ELSE "deleted"

\* part_002:104-108: if (src) src.delete(); if (dst) dst.delete(); then the
\* return value or the exception leaves the function
Finally ==
  /\ resizePc = "finally"
  /\ src' = DeleteIfSet(src)
  /\ dst' = DeleteIfSet(dst)
  /\ deleteCalls' = [deleteCalls EXCEPT
                       !["src"] = IF src = "undefined" THEN @ ELSE @ + 1,
                       !["dst"] = IF dst = "undefined" THEN @ ELSE @ + 1]
  /\ resizePc' = "exit"
  /\ UNCHANGED <<resizeExit, sizeVars>>
  /\ UNCHANGED <<serverVars, uiVars, analysisVars>>

NextResize ==
  \/ CallResizeWithOpenCV
  \/ DrawSource
  \/ Imread
  \/ SizeTarget
  \/ NewMat
  \/ CvResize
  \/ Imshow
  \/ ToDataURL
  \/ Finally

SpecResize == Init /\ [][NextResize]_vars

\* the Mat was never allocated, or was deleted by exactly one delete()
Released(m, calls) ==
  \/ m = "undefined" /\ calls = 0
  \/ m = "deleted" /\ calls = 1

(***************************************************************************)
(* C16: on every exit path of resizeWithOpenCV, a normal return or an      *)
(* exception thrown by any statement, every Mat that was allocated (src,   *)
(* dst) has been deleted exactly once when the function is left; none      *)
(* remains live.                                                           *)
(***************************************************************************)
C16_BuffersReleased ==
  resizePc = "exit" =>
    /\ resizeExit \in {"returned", "thrown"}
    /\ Released(src, deleteCalls["src"])
    /\ Released(dst, deleteCalls["dst"])

C16_Witness ==
  /\ resizePc = "exit"
  /\ resizeExit = "thrown"
  /\ src = "deleted"
  /\ dst = "deleted"
  /\ target.height = 0

(***************************************************************************)
(* C17: at every moment at which an analysis started by                    *)
(* analyzeCurrentFrame is in flight (after the size check passed, before   *)
(* its result or failure has been handled), isAnalyzing and showMagic are  *)
(* both true, whatever the user does meanwhile, triggering the magic wand  *)
(* or Re-analyze again included.                                           *)
(***************************************************************************)
C17_IndicatorWhileInFlight ==
  \A a \in Analyses : InFlight(a) => (isAnalyzing /\ showMagic)

(***************************************************************************)
(* Two POST /analyze requests handled concurrently: gin runs each handler  *)
(* on a goroutine of its own, and the steps of the two interleave freely.  *)
(***************************************************************************)
\* images of at most one character, and the well-formed payloads
SampleImages == {s \in Images : Len(s) <= 1 \/ WellFormedBase64(s)}

\* failed calls, and texts that are one pair of braces around a token
SampleReplies ==
  {res \in Replies :
     res.kind = "text" =>
       /\ Len(res.text) >= 2
       /\ res.text[1] = "{"
       /\ res.text[Len(res.text)] = "}"}

NextConcurrent ==
  \E r \in Requests :
    \/ HandlerValidate(r, RequestBodies(SampleImages))
    \/ ConverseCall(r)
    \/ ConverseReturn(r, SampleReplies)

SpecConcurrent == Init /\ [][NextConcurrent]_vars

\* one request: any image, and a reply out of SampleReplies
NextImages ==
  \/ HandlerValidate("r1", RequestBodies(Images))
  \/ ConverseCall("r1")
  \/ ConverseReturn("r1", SampleReplies)

SpecImages == Init /\ [][NextImages]_vars

\* one request: an image out of SampleImages, and any reply
NextReplies ==
  \/ HandlerValidate("r1", RequestBodies(SampleImages))
  \/ ConverseCall("r1")
  \/ ConverseReturn("r1", Replies)

SpecReplies == Init /\ [][NextReplies]_vars

\* the response a request with body q gets when it is handled alone and
\* Converse, if called, answers res
ResponseAlone(q, res) ==
  LET bound == ShouldBindJSON(q)
  IN IF bound.err
     THEN [status |-> 400, body |-> ErrorBody("Invalid request format")]
     ELSE IF bound.Image = <<>>
     THEN [status |-> 400, body |-> ErrorBody("Image data is required")]
     ELSE IF DecodeString(CleanBase64(bound.Image)).err
     THEN [status |-> 400, body |-> ErrorBody("Invalid image data")]
     ELSE AnalysisResponseOf(AnalyzeReply(res))

(***************************************************************************)
(* C18: for any interleaving of two concurrent requests that share         *)
(* bedrockClient, each request's response is the one it would get alone,   *)
(* determined only by its own image and its own Converse reply;            *)
(* bedrockClient keeps the value init gave it, and nothing a handler       *)
(* writes is read by the other request.                                    *)
(***************************************************************************)
C18_RequestIsolation ==
  /\ bedrockClient = "client"
  /\ \A r \in Requests :
       /\ pc[r] = "idle" =>
            /\ analysisReq[r] = NoRequest
            /\ responses[r] = <<>>
            /\ converseCalls[r] = 0
       /\ converseCalls[r] > 0 =>
            converseInput[r] = DecodeString(CleanBase64(analysisReq[r].image)).bytes
       /\ pc[r] \in {"analyze", "converse"} => responses[r] = <<>>
       /\ Done(r) => responses[r] = <<ResponseAlone(analysisReq[r], result[r])>>

C18_Witness ==
  /\ Done("r1")
  /\ AnsweredOnce("r1", 200)
  /\ pc["r2"] = "converse"
  /\ converseInput["r2"] # converseInput["r1"]

(***************************************************************************)
(* C19: calculateTargetSize returns a width and a height that are both     *)
(* integers >= 1, for every source with width and height >= 1 (extreme     *)
(* aspect ratios included) and every preset, so that cv.resize is never    *)
(* asked for a zero-sized target.                                          *)
(***************************************************************************)
C19_TargetAtLeastOne ==
  Sized => (target.width >= 1 /\ target.height >= 1)

(***************************************************************************)
(* C20: Converse is never invoked with an empty image: a request whose     *)
(* payload, after the prefix is stripped, is the empty string is answered  *)
(* 400 and Converse is not called.                                         *)
(***************************************************************************)
C20_EmptyPayloadRejected ==
  \A r \in Requests :
    (pc[r] # "idle" /\ PayloadAfterFirstSeparator(analysisReq[r].image) = <<>>) =>
      /\ converseCalls[r] = 0
      /\ pc[r] \in {"analyze", "done"}
      /\ Done(r) => AnsweredOnce(r, 400)

\* this step handles the settling of the analyzePhoto promise of analysis a
Settles(a) == InFlight(a) /\ aPc'[a] = "done"

\* part_001:449-462: the loading overlay is rendered
LoadingOverlayShown == isAnalyzing /\ showMagic

(***************************************************************************)
(* C21: every analysis whose analyzePhoto promise settles (success,        *)
(* normalization failure, network error, non-2xx response) sets            *)
(* isAnalyzing and showMagic to false, so that once no analysis is in      *)
(* flight the loading overlay is not shown; the modal is opened with a new *)
(* result only on success, and a failure leaves analysisResult and         *)
(* showAnalysisModal unchanged.                                            *)
(***************************************************************************)
C21_IndicatorClearedModalOnSuccess ==
  [][
      /\ \A a \in Analyses :
          Settles(a) =>
            /\ ~isAnalyzing'
            /\ ~showMagic'
            /\ settled'[a] \in {"resolved", "rejected"}
            /\ settled'[a] = "rejected" =>
                 UNCHANGED <<analysisResult, showAnalysisModal>>
            /\ settled'[a] = "resolved" =>
                 /\ showAnalysisModal'
                 /\ analysisResult' # NoResult
                 /\ analysisResult'.of = a
      /\ (showAnalysisModal' /\ ~showAnalysisModal) =>
           \E a \in Analyses : Settles(a) /\ settled'[a] = "resolved"
      /\ (analysisResult' # analysisResult /\ analysisResult' # NoResult) =>
           \E a \in Analyses : Settles(a) /\ settled'[a] = "resolved"
      /\ (\A a \in Analyses : ~InFlight(a)') => ~LoadingOverlayShown'
    ]_vars

\* one analysis failed on the network, the other succeeded and its result
\* is in the open modal; nothing is in flight and the indicator is down
C21_Witness ==
  /\ settled["a1"] = "rejected"
  /\ failure["a1"] = "Failed to fetch"
  /\ settled["a2"] = "resolved"
  /\ showAnalysisModal
  /\ analysisResult.of = "a2"
  /\ \A a \in Analyses : ~InFlight(a)
  /\ ~isAnalyzing
  /\ ~showMagic
====
